---- MODULE Spec2Model ----
(***************************************************************************)
(* Model of homematic_exporter: the time aware caches (cache.py), the      *)
(* directory joins and the classification pass of the XML-API collector    *)
(* (collectors/xml_api.py) and the parameter-set pass of the legacy        *)
(* collector (collectors/legacy.py).                                       *)
(*                                                                         *)
(* Each component has its own specification over the shared variables:     *)
(*   SpecCache      the two cache decorators, ttl and maxsize as inputs    *)
(*   SpecDirectory  one directory of the XML-API collector, its accessor   *)
(*                  and its per channel join, around a refresh             *)
(*   SpecXml        passes of the XML-API collector over a state list      *)
(*   SpecClassify   the same passes over every (type, unit, value)         *)
(***************************************************************************)
EXTENDS Integers, Sequences, FiniteSets, TLC

VARIABLES
    now,        \* the clock read by time() / monotonic(), in seconds
    impl,       \* which decorator wraps the function
    ttl,        \* seconds_to_live / ttl argument of the decorator
    maxsize,    \* maxsize argument of the decorator
    lru,        \* the lru_cache of the wrapped function, least recent first
    source,     \* what the wrapped function returns for each key right now
    computedAt, \* history: time of the last computation that returned, per key
    storedVal,  \* history: the value that computation returned
    last,       \* history: the last cache call and what it did
    focus,      \* the directory the directory specification exercises
    upDir,      \* the controller's room, function and device lists right now
    dirCache,   \* rooms() / functions() / devices(): the live cache entry of each
    resCache,   \* get_*_of_device(ise_id): the live cache entry per channel
    lastRes,    \* history: the resolve call that has just returned
    xpc,        \* XML-API collect(): idle, run, done or failed
    xsnap,      \* its states: the channels of client.statelist()
    xi,         \* the channel the loop is at
    xj,         \* the datapoint the loop is at, 0 before the channel's joins
    xlabels,    \* base_labels of the channel
    xmetrics,   \* its metrics: per family the samples added so far
    xresult,    \* the families collect() has yielded, until the next collect()
    xlast,      \* history: the datapoint just classified and what it added
    lconfig,    \* legacy collector: constructed with a config_filename
    mapped_names, \* its mapped_names: device_mapping of the config file, or {}
    lmetrics,   \* its metrics dict, one for all passes and threads
    lmap,       \* the cache entry of its get_mappings()
    lpc,        \* per serving thread, collect(): idle, run, done or failed
    ldevs,      \* per thread: devices, the list client.devices returned
    li,         \* per thread: the device the loop is at
    lresult,    \* per thread: the families collect() has yielded
    lerr,       \* per thread: the exception that ended the pass
    lown,       \* history, per thread: the samples this pass has added
    lfails,     \* history, per thread: the controller calls that failed in this pass
    lstarts,    \* history: the number of passes started
    llast,      \* history: the parameter just processed and what it added
    spc,        \* main(): parsed, auth, dumped, registered, serving or crashed
    sargs,      \* args, the parsed command line
    soptimized, \* the interpreter runs with -O, which strips assert statements
    sauth,      \* auth, the credential tuple
    sregistered, \* the collectors registered with REGISTRY
    serr        \* the exception that ended main()

cacheVars == <<impl, ttl, maxsize, lru, source, computedAt, storedVal, last>>
dirVars == <<focus, upDir, dirCache, resCache, lastRes>>
xmlVars == <<xpc, xsnap, xi, xj, xlabels, xmetrics, xresult, xlast>>
legVars == <<lconfig, mapped_names, lmetrics, lmap, lpc, ldevs, li, lresult, lerr, lown, lfails, lstarts, llast>>
startVars == <<spc, sargs, soptimized, sauth, sregistered, serr>>
vars == <<now, cacheVars, dirVars, xmlVars, legVars, startVars>>

(***************************************************************************)
(* Bounds of the model.                                                    *)
(***************************************************************************)
MaxNow == 4        \* the cache specification's clock runs over 0..MaxNow
MaxTtl == 2        \* ttl ranges over 1..MaxTtl
MaxMaxsize == 2    \* maxsize ranges over 1..MaxMaxsize
Window == 100      \* the directory clock runs from Window seconds before the
                   \* directory's first refresh to Window seconds after it

Keys == {1, 2}     \* argument tuples of the wrapped function
Vals == {0, 1}     \* values the wrapped function returns
NoTime == 0 - 1     \* history: no computation has returned yet

(***************************************************************************)
(* cache.py                                                                *)
(***************************************************************************)
\* time() // seconds_to_live: the window a call falls in
Bucket(t, s) == t \div s

\* position of key in the cache, 0 when absent
LruFind(c, key) ==
    IF \E i \in 1..Len(c) : c[i].key = key
    THEN CHOOSE i \in 1..Len(c) : c[i].key = key
    ELSE 0

\* a hit makes the entry the most recently used one
LruTouch(c, i) ==
    [j \in 1..Len(c) |-> IF j < i THEN c[j] ELSE IF j < Len(c) THEN c[j + 1] ELSE c[i]]

\* a miss stores the result, displacing the least recently used entry of a full cache
LruInsert(c, size, e) ==
    IF Len(c) >= size THEN Append(Tail(c), e) ELSE Append(c, e)

\* a variant of TtlKey that forgets the window: the entry would never expire
TtlKeyNoWindow(k) == <<0, k>>

\* the key inner() is cached under: the window first, then the arguments
TtlKey(k) == <<Bucket(now, ttl), k>>

\* a variant of AfterRaise that stores the failed call like a result
AfterRaiseStoring(c, key) ==
    LruInsert(c, maxsize, [key |-> key, value |-> 0, death |-> now + ttl])

\* lru_cache stores nothing when the wrapped function raises: the exception
\* leaves cached_func / inner before the result is recorded
AfterRaise(c, key) == c

NoCall == [op |-> "none", key |-> 0, time |-> 0, invoked |-> 0, outcome |-> "none",
           value |-> 0, prevT |-> NoTime, prevV |-> 0, stored |-> FALSE]

\* whether the entry written by the last computation for k is still in the cache
StillStored(k) ==
    /\ computedAt[k] # NoTime
    /\ IF impl = "ttl_lru_cache"
       THEN LruFind(lru, <<Bucket(computedAt[k], ttl), k>>) # 0
       ELSE LruFind(lru, <<k>>) # 0

CallRecord(k, n, out, v) ==
    [op |-> "call", key |-> k, time |-> now, invoked |-> n, outcome |-> out,
     value |-> v, prevT |-> computedAt[k], prevV |-> storedVal[k],
     stored |-> StillStored(k)]

\* ttl_lru_cache: the lambda calls inner(time() // seconds_to_live, *args)
TtlLruCall(k, fails) ==
    LET key == TtlKey(k)
        i == LruFind(lru, key)
    IN  /\ impl = "ttl_lru_cache"
        /\ IF i # 0
           THEN /\ lru' = LruTouch(lru, i)
                /\ last' = CallRecord(k, 0, "ok", lru[i].value)
                /\ UNCHANGED <<computedAt, storedVal>>
           ELSE IF fails
           THEN /\ lru' = AfterRaise(lru, key)
                /\ last' = CallRecord(k, 1, "raised", 0)
                /\ UNCHANGED <<computedAt, storedVal>>
           ELSE /\ lru' = LruInsert(lru, maxsize, [key |-> key, value |-> source[k], death |-> 0])
                /\ last' = CallRecord(k, 1, "ok", source[k])
                /\ computedAt' = [computedAt EXCEPT ![k] = now]
                /\ storedVal' = [storedVal EXCEPT ![k] = source[k]]
        /\ UNCHANGED <<now, impl, ttl, maxsize, source, dirVars, xmlVars, legVars, startVars>>

\* lru_cache_with_ttl: cached_func stores Result(value, death); wrapper refreshes
\* the Result in place when its death lies before monotonic()
WithTtlCall(k, fails) ==
    LET key == <<k>>
        i == LruFind(lru, key)
    IN  /\ impl = "lru_cache_with_ttl"
        /\ IF i = 0
           THEN IF fails
                THEN /\ lru' = AfterRaise(lru, key)
                     /\ last' = CallRecord(k, 1, "raised", 0)
                     /\ UNCHANGED <<computedAt, storedVal>>
                ELSE /\ lru' = LruInsert(lru, maxsize,
                                   [key |-> key, value |-> source[k], death |-> now + ttl])
                     /\ last' = CallRecord(k, 1, "ok", source[k])
                     /\ computedAt' = [computedAt EXCEPT ![k] = now]
                     /\ storedVal' = [storedVal EXCEPT ![k] = source[k]]
           ELSE LET c == LruTouch(lru, i)
                    n == Len(c)
                IN  IF c[n].death < now
                    THEN IF fails
                         THEN /\ lru' = c
                              /\ last' = CallRecord(k, 1, "raised", 0)
                              /\ UNCHANGED <<computedAt, storedVal>>
                         ELSE /\ lru' = [c EXCEPT ![n].value = source[k],
                                                  ![n].death = now + ttl]
                              /\ last' = CallRecord(k, 1, "ok", source[k])
                              /\ computedAt' = [computedAt EXCEPT ![k] = now]
                              /\ storedVal' = [storedVal EXCEPT ![k] = source[k]]
                    ELSE /\ lru' = c
                         /\ last' = CallRecord(k, 0, "ok", c[n].value)
                         /\ UNCHANGED <<computedAt, storedVal>>
        /\ UNCHANGED <<now, impl, ttl, maxsize, source, dirVars, xmlVars, legVars, startVars>>

\* the wrapped function's answer changes (the controller's data changed)
SourceChange ==
    /\ \E k \in Keys, v \in Vals :
          /\ v # source[k]
          /\ source' = [source EXCEPT ![k] = v]
    /\ UNCHANGED <<now, impl, ttl, maxsize, lru, computedAt, storedVal, last, dirVars, xmlVars, legVars, startVars>>

\* the clock advances
CacheTick ==
    /\ now < MaxNow
    /\ now' = now + 1
    /\ UNCHANGED <<cacheVars, dirVars, xmlVars, legVars, startVars>>


(***************************************************************************)
(* collectors/xml_api.py: the directories and the joins                    *)
(***************************************************************************)
RoomsTtl == 3600
FunctionsTtl == 3100
DevicesTtl == 3200
RoomOfDeviceTtl == 60
DeviceAddressOfDeviceTtl == 100
FunctionOfDeviceTtl == 94

Kinds == {"room", "function", "device"}
Channels == {1, 2}              \* ise_ids of channels
MemberLists == {<<>>, <<1>>, <<1, 2>>}

\* ttl of the accessor rooms() / functions() / devices()
DirTtl(kind) ==
    CASE kind = "room" -> RoomsTtl
      [] kind = "function" -> FunctionsTtl
      [] kind = "device" -> DevicesTtl

\* ttl of get_room_of_device / get_function_of_device / get_device_address_of_device
ResTtl(kind) ==
    CASE kind = "room" -> RoomOfDeviceTtl
      [] kind = "function" -> FunctionOfDeviceTtl
      [] kind = "device" -> DeviceAddressOfDeviceTtl

\* entries of a list as the controller reports them
EntryA(chs) == [name |-> "A", address |-> "adrA", device_type |-> "typA", channel |-> chs]
EntryB(chs) == [name |-> "B", address |-> "adrB", device_type |-> "typB", channel |-> chs]

\* the lists the controller may report: no entry, one entry, two entries
DirInputs ==
    {<<>>} \cup {<<EntryA(c)>> : c \in MemberLists}
           \cup {<<EntryA(c), EntryB(d)>> : c \in MemberLists, d \in MemberLists}

\* an empty cache: no window has been computed; gen counts the refreshes of the
\* list (history)
NoSlot == [bucket |-> NoTime, snap |-> <<>>, gen |-> 0]
NoResSlot == [bucket |-> NoTime, label |-> "none", gen |-> 0]

Occurrences(chs, x) == Cardinality({i \in 1..Len(chs) : chs[i] = x})

\* [entry for entry in directory for channel in entry.channel if channel.ise_id == ise_id]
RECURSIVE Found(_, _)
Found(dir, x) ==
    IF dir = <<>> THEN <<>>
    ELSE [i \in 1..Occurrences(Head(dir).channel, x) |-> Head(dir)] \o Found(Tail(dir), x)

EntryLabel(kind, e) == IF kind = "device" THEN <<e.address, e.device_type>> ELSE e.name
Unknown(kind) == IF kind = "device" THEN <<"unknown", "unknown">> ELSE "unknown"

\* a variant of Join that takes the first match when several entries match
JoinFirstMatch(kind, dir, x) ==
    LET found == Found(dir, x)
    IN  IF Len(found) >= 1 THEN EntryLabel(kind, found[1]) ELSE Unknown(kind)

\* if found and len(found) == 1: the entry's label, else "unknown"
Join(kind, dir, x) ==
    LET found == Found(dir, x)
    IN  IF found # <<>> /\ Len(found) = 1 THEN EntryLabel(kind, found[1]) ELSE Unknown(kind)

\* rooms() / functions() / devices() through ttl_lru_cache: the entry of the
\* current window, or a call to the controller, which may fail
Accessor(kind, fails) ==
    LET slot == dirCache[kind]
    IN  IF slot.bucket = Bucket(now, DirTtl(kind))
        THEN [ok |-> TRUE, slot |-> slot]
        ELSE IF fails
        THEN [ok |-> FALSE, slot |-> slot]
        ELSE [ok |-> TRUE,
              slot |-> [bucket |-> Bucket(now, DirTtl(kind)), snap |-> upDir[kind],
                        gen |-> slot.gen + 1]]

\* a variant of ResolveHit that serves a label of any earlier window
ResolveHitAnyWindow(kind, x) == resCache[kind][x].bucket # NoTime

\* whether get_*_of_device(ise_id) is served from its own ttl_lru_cache
ResolveHit(kind, x) == resCache[kind][x].bucket = Bucket(now, ResTtl(kind))

\* get_room_of_device / get_function_of_device / get_device_address_of_device
Resolve(kind, x, fails) ==
    IF ResolveHit(kind, x)
    THEN [ok |-> TRUE, hit |-> TRUE, label |-> resCache[kind][x].label,
          gen |-> resCache[kind][x].gen, dslot |-> dirCache[kind],
          rslot |-> resCache[kind][x]]
    ELSE LET a == Accessor(kind, fails)
         IN  IF ~a.ok
             THEN [ok |-> FALSE, hit |-> FALSE, label |-> "raised", gen |-> 0,
                   dslot |-> dirCache[kind], rslot |-> resCache[kind][x]]
             ELSE LET l == Join(kind, a.slot.snap, x)
                  IN  [ok |-> TRUE, hit |-> FALSE, label |-> l, gen |-> a.slot.gen,
                       dslot |-> a.slot,
                       rslot |-> [bucket |-> Bucket(now, ResTtl(kind)), label |-> l,
                                  gen |-> a.slot.gen]]

NoRes == [op |-> "none", kind |-> "none", ch |-> 0, ok |-> FALSE, hit |-> FALSE,
          label |-> "none", gen |-> 0, snap |-> <<>>]

DirIdle ==
    /\ focus = "none"
    /\ upDir = [k \in Kinds |-> <<>>]
    /\ dirCache = [k \in Kinds |-> NoSlot]
    /\ resCache = [k \in Kinds |-> [x \in Channels |-> NoResSlot]]
    /\ lastRes = NoRes

\* one call of a join of the focused directory
ResolveCall(x, fails) ==
    LET r == Resolve(focus, x, fails)
    IN  /\ dirCache' = [dirCache EXCEPT ![focus] = r.dslot]
        /\ resCache' = [resCache EXCEPT ![focus][x] = r.rslot]
        /\ lastRes' = [op |-> "resolve", kind |-> focus, ch |-> x, ok |-> r.ok,
                       hit |-> r.hit, label |-> r.label, gen |-> r.gen,
                       snap |-> r.dslot.snap]
        /\ UNCHANGED <<now, focus, upDir, cacheVars, xmlVars, legVars, startVars>>

\* the controller's list changes (a room is renamed, a channel moves)
DirectoryChange ==
    /\ \E d \in DirInputs :
          /\ d # upDir[focus]
          /\ upDir' = [upDir EXCEPT ![focus] = d]
    /\ lastRes' = NoRes
    /\ UNCHANGED <<now, focus, dirCache, resCache, cacheVars, xmlVars, legVars, startVars>>

WindowStart(t, s) == Bucket(t, s) * s
Min(a, b) == IF a < b THEN a ELSE b

\* the clock advances to the next instant at which a window of the focused
\* directory's accessor or join begins; between two such instants every call
\* falls in the same windows
DirTick ==
    LET t == Min(WindowStart(now, DirTtl(focus)) + DirTtl(focus),
                 WindowStart(now, ResTtl(focus)) + ResTtl(focus))
    IN  /\ t <= DirTtl(focus) + Window
        /\ now' = t
        /\ lastRes' = NoRes
        /\ UNCHANGED <<focus, upDir, dirCache, resCache, cacheVars, xmlVars, legVars, startVars>>


CacheIdle ==
    /\ impl = "none"
    /\ ttl = 1
    /\ maxsize = 1
    /\ lru = <<>>
    /\ source = [k \in Keys |-> 0]
    /\ computedAt = [k \in Keys |-> NoTime]
    /\ storedVal = [k \in Keys |-> 0]
    /\ last = NoCall


(***************************************************************************)
(* collectors/xml_api.py: floatify and collect                             *)
(***************************************************************************)
\* raw values of a datapoint: a number, BOOLEAN.TRUE / BOOLEAN.FALSE, a value of
\* another type (an address, a date, a string), the empty value
Num(v) == [t |-> "num", v |-> v]
BoolTrue == [t |-> "bool", v |-> 1]
BoolFalse == [t |-> "bool", v |-> 0]
OtherValue == [t |-> "other", v |-> 0]
EmptyValue == [t |-> "empty", v |-> 0]

\* floats are fractions <<numerator, denominator>>
Float(n) == <<n, 1>>
Times(x, k) == <<x[1] * k, x[2]>>
Over(x, k) == <<x[1], x[2] * k>>
SameFloat(x, y) == x[1] * y[2] = y[1] * x[2]

\* floatify
floatify(value) ==
    CASE value.t = "num" -> Float(value.v)
      [] value = BoolTrue -> Float(1)
      [] OTHER -> Float(0)

DataPointTypes ==
    {"RSSI_DEVICE", "RSSI_PEER", "ACTUAL_TEMPERATURE", "TEMPERATURE", "HUMIDITY",
     "LEVEL", "OPERATING_VOLTAGE", "ENERGY_COUNTER", "CURRENT", "VOLTAGE", "POWER",
     "OTHER_TYPE"}
DataPointUnits ==
    {"DECIMAL_PERCENT", "PERCENT", "UNKNOWN", "VOLTAGE", "WATT_HOUR", "WATT",
     "MILLI_AMPERE", "OTHER_UNIT"}
RawValues == {Num(2), Num(45), Num(500), BoolTrue, BoolFalse, OtherValue, EmptyValue}

Families ==
    {"rssi", "temperature", "humidity", "battery", "level", "energy", "current",
     "voltage", "power"}

Sample(family, labels, value) == [family |-> family, labels |-> labels, value |-> value]

\* a variant of EnergyValue that counts watt hours as joules
EnergyValueNoConversion(dp) == floatify(dp.value)

\* case DataPointType.ENERGY_COUNTER: the value by unit
EnergyValue(dp) ==
    CASE dp.valueunit = "WATT_HOUR" -> Times(floatify(dp.value), 3600)
      [] dp.valueunit = "WATT" -> Times(floatify(dp.value), 1)
      [] OTHER -> floatify(dp.value)

\* the match over datapoint.type of collect(): the samples one datapoint adds
Classify(dp, base) ==
    CASE dp.type \in {"RSSI_DEVICE", "RSSI_PEER"} ->
            <<Sample("rssi",
                     base \o <<IF dp.type = "RSSI_PEER" THEN "device->ccu" ELSE "ccu->device">>,
                     floatify(dp.value))>>
      [] dp.type \in {"ACTUAL_TEMPERATURE", "TEMPERATURE"} ->
            <<Sample("temperature", base, floatify(dp.value))>>
      [] dp.type = "HUMIDITY" ->
            <<Sample("humidity", base,
                     IF dp.valueunit = "DECIMAL_PERCENT"
                     THEN Over(floatify(dp.value), 100)
                     ELSE floatify(dp.value))>>
      [] dp.type = "LEVEL" ->
            IF dp.valueunit = "PERCENT"
            THEN <<Sample("level", base, floatify(dp.value))>>
            ELSE <<>>
      [] dp.type = "OPERATING_VOLTAGE" ->
            IF dp.valueunit = "UNKNOWN"
            THEN <<Sample("battery", base, floatify(dp.value))>>
            ELSE <<>>
      [] dp.type = "ENERGY_COUNTER" ->
            <<Sample("energy", base, EnergyValue(dp))>>
      [] dp.type = "CURRENT" ->
            <<Sample("current", base,
                     IF dp.valueunit = "MILLI_AMPERE"
                     THEN Over(floatify(dp.value), 1000)
                     ELSE floatify(dp.value))>>
      [] dp.type = "VOLTAGE" ->
            IF dp.valueunit = "VOLTAGE"
            THEN <<Sample("voltage", base, floatify(dp.value))>>
            ELSE <<>>
      [] dp.type = "POWER" ->
            IF dp.valueunit = "WATT"
            THEN <<Sample("power", base, floatify(dp.value))>>
            ELSE <<>>
      [] OTHER -> <<>>

\* metrics[family].add_metric(labels, value): the sample is appended
AddSamples(metrics, obs) ==
    [f \in Families |->
        metrics[f] \o SelectSeq(obs, LAMBDA o : o.family = f)]

Datapoint(type, unit, value) == [type |-> type, valueunit |-> unit, value |-> value]
Channel(id, dps) ==
    [device |-> "dev", ise_id |-> id, name |-> IF id = 1 THEN "ch1" ELSE "ch2",
     datapoint |-> dps]

\* state lists of one channel with one datapoint, over every type, unit and value
SingleSnapshots ==
    {<<Channel(1, <<Datapoint(t, u, v)>>)>> :
        t \in DataPointTypes, u \in DataPointUnits, v \in RawValues}

\* datapoints of the state lists with several datapoints
FewDatapoints ==
    {Datapoint("ACTUAL_TEMPERATURE", "UNKNOWN", Num(2)),
     Datapoint("TEMPERATURE", "UNKNOWN", Num(45)),
     Datapoint("LEVEL", "OTHER_UNIT", Num(2)),
     Datapoint("HUMIDITY", "DECIMAL_PERCENT", OtherValue)}
FewDatapointLists ==
    {<<>>} \cup {<<a>> : a \in FewDatapoints}
           \cup {<<p[1], p[2]>> : p \in {q \in FewDatapoints \X FewDatapoints : q[1] # q[2]}}

\* state lists of no, one and two channels
PassSnapshots ==
    {<<>>} \cup {<<Channel(1, a)>> : a \in FewDatapointLists}
           \cup {<<Channel(1, a), Channel(2, b)>> :
                    a \in FewDatapointLists, b \in {<<>>} \cup {<<d>> : d \in FewDatapoints}}

Host == "ccu"
NoMetrics == [f \in Families |-> <<>>]
NoXLast == [op |-> "none", dp |-> Datapoint("none", "none", EmptyValue), obs |-> <<>>]

XmlIdle ==
    /\ xpc = "idle"
    /\ xsnap = <<>>
    /\ xi = 1
    /\ xj = 0
    /\ xlabels = <<>>
    /\ xmetrics = NoMetrics
    /\ xresult = NoMetrics
    /\ xlast = NoXLast

\* collect() up to states = self.client.statelist(), which may fail
XmlStart(snap, fails) ==
    /\ xpc \in {"idle", "done", "failed"}
    /\ xmetrics' = NoMetrics
    /\ xresult' = NoMetrics
    /\ xlast' = NoXLast
    /\ IF fails
       THEN /\ xpc' = "failed"
            /\ UNCHANGED <<xsnap, xi, xj, xlabels>>
       ELSE /\ xpc' = "run"
            /\ xsnap' = snap
            /\ xi' = 1
            /\ xj' = 0
            /\ xlabels' = <<>>
    /\ UNCHANGED <<now, cacheVars, dirVars, legVars, startVars>>

\* the three joins of a channel and its base_labels; a join that has to
\* refresh its list from the controller fails when that call fails
XmlChannel(fails) ==
    LET ch == xsnap[xi]
        d == Resolve("device", ch.ise_id, fails["device"])
        r == Resolve("room", ch.ise_id, fails["room"])
        f == Resolve("function", ch.ise_id, fails["function"])
        ran == [k \in Kinds |->
                   CASE k = "device" -> TRUE
                     [] k = "room" -> d.ok
                     [] k = "function" -> d.ok /\ r.ok]
        res == [k \in Kinds |->
                   CASE k = "device" -> d [] k = "room" -> r [] k = "function" -> f]
    IN  /\ xpc = "run"
        /\ xi <= Len(xsnap)
        /\ xj = 0
        /\ dirCache' = [k \in Kinds |-> IF ran[k] THEN res[k].dslot ELSE dirCache[k]]
        /\ resCache' = [k \in Kinds |->
                           IF ran[k]
                           THEN [resCache[k] EXCEPT ![ch.ise_id] = res[k].rslot]
                           ELSE resCache[k]]
        /\ xlast' = NoXLast
        /\ IF d.ok /\ r.ok /\ f.ok
           THEN /\ xlabels' = <<Host, ch.device, d.label[1], d.label[2], ch.name,
                                r.label, f.label>>
                /\ xpc' = "run"
                /\ IF ch.datapoint = <<>>
                   THEN xi' = xi + 1 /\ xj' = 0
                   ELSE xi' = xi /\ xj' = 1
           ELSE /\ xpc' = "failed"
                /\ UNCHANGED <<xlabels, xi, xj>>
        /\ UNCHANGED <<now, cacheVars, focus, upDir, lastRes, xsnap, xmetrics, xresult, legVars, startVars>>

\* one iteration of for datapoint in channel.datapoint
XmlDatapoint ==
    LET ch == xsnap[xi]
        dp == ch.datapoint[xj]
        obs == Classify(dp, xlabels)
    IN  /\ xpc = "run"
        /\ xi <= Len(xsnap)
        /\ xj >= 1
        /\ xmetrics' = AddSamples(xmetrics, obs)
        /\ xlast' = [op |-> "datapoint", dp |-> dp, obs |-> obs]
        /\ IF xj = Len(ch.datapoint)
           THEN xi' = xi + 1 /\ xj' = 0
           ELSE xi' = xi /\ xj' = xj + 1
        /\ UNCHANGED <<now, cacheVars, dirVars, xpc, xsnap, xlabels, xresult, legVars, startVars>>

\* for metric in metrics.values(): yield metric
XmlFinish ==
    /\ xpc = "run"
    /\ xi > Len(xsnap)
    /\ xpc' = "done"
    /\ xresult' = xmetrics
    /\ xlast' = NoXLast
    /\ UNCHANGED <<now, cacheVars, dirVars, xsnap, xi, xj, xlabels, xmetrics, legVars, startVars>>

(***************************************************************************)
(* collectors/legacy.py                                                    *)
(***************************************************************************)
MaxPasses == 2     \* passes started in one behaviour, over both threads
MappingsTtl == 3600

Threads == {1, 2}  \* the threads of the HTTP server that serve a scrape

AbsentValue == [t |-> "absent", v |-> 0]    \* paramset.get(key) is None
LegValues == {AbsentValue, EmptyValue, Num(1), Num(2), OtherValue}

\* pyccu3.constants: the parent types the collector reads, and the channels
\* of a parent type whose parameter-set read is known to fault
SupportedDeviceTypes == {"HmIP-SWDO", "HmIP-eTRV"}
ChannelsWithErrorsAllowed(parent_type) ==
    IF parent_type = "HmIP-eTRV" THEN {1} ELSE {}

Device(address, parent, type, parent_type, channel, values) ==
    [address |-> address, parent |-> parent, type |-> type,
     parent_type |-> parent_type, channel |-> channel, values |-> values,
     default_device |-> FALSE]

NoDevice == Device("", "", "", "", 0, FALSE)
\* a top-level device, two channels that are read, one without VALUES
DeviceLists ==
    LET top == Device("A", "", "HmIP-SWDO", "", 0, FALSE)
        a1 == Device("A:1", "A", "SHUTTER_CONTACT", "HmIP-SWDO", 1, TRUE)
        b1 == Device("B:1", "B", "HEATING", "HmIP-eTRV", 1, TRUE)
        a2 == Device("A:2", "A", "MAINTENANCE", "HmIP-SWDO", 2, FALSE)
    IN  {<<>>, <<top>>, <<a1>>, <<b1>>, <<a2>>, <<a1, b1>>}

\* entries of a paramset description
Param(key, type, states) == [key |-> key, TYPE |-> type, VALUE_LIST |-> states]
ParamTemp == Param("TEMP", "FLOAT", <<>>)
ParamState == Param("STATE", "ENUM", <<"CLOSED", "OPEN">>)
ParamPress == Param("PRESS", "ACTION", <<>>)
ParamKeys == {"TEMP", "STATE"}
Descriptions ==
    {<<>>, <<ParamTemp>>, <<ParamState>>, <<ParamPress, ParamState>>}

\* key.lower() and key.lower() + "_set"
Lower(key) ==
    CASE key = "TEMP" -> "temp"
      [] key = "STATE" -> "state"
      [] OTHER -> "press"
LowerSet(key) ==
    CASE key = "TEMP" -> "temp_set"
      [] key = "STATE" -> "state_set"
      [] OTHER -> "press_set"

LegGauges == {"devicecount", "temp", "state_set"}
NoFamily == [present |-> FALSE, samples |-> <<>>]
NoLegMetrics == [g \in LegGauges |-> NoFamily]

\* if not gaugename in self.metrics: self.metrics[gaugename] = GaugeMetricFamily(..)
EnsureFamily(metrics, g) ==
    IF metrics[g].present THEN metrics
    ELSE [metrics EXCEPT ![g] = [present |-> TRUE, samples |-> <<>>]]

\* self.metrics[gaugename].add_metric(..) for each of obs
AddMetric(metrics, g, obs) ==
    [metrics EXCEPT ![g].samples = @ \o obs]

\* what device_names() returns: address and name pairs
NameInputs == {{}, {<<"A:1", "door">>, <<"B", "bath">>}}
HasKey(names, a) == \E p \in names : p[1] = a
Lookup(names, a) == (CHOOSE p \in names : p[1] = a)[2]

NoneMapping == [none |-> TRUE, names |-> {}]
NoMapSlot == [bucket |-> NoTime, value |-> NoneMapping]

FailedCall(call, exc, device) == [call |-> call, exc |-> exc, device |-> device]

\* get_mappings() under ttl_lru_cache(3600); up is what device_names() does
\* if it is called
GetMappings(slot, up) ==
    IF slot.bucket = Bucket(now, MappingsTtl)
    THEN [ok |-> TRUE, value |-> slot.value, slot |-> slot]
    ELSE IF lconfig
    THEN [ok |-> TRUE, value |-> NoneMapping,
          slot |-> [bucket |-> Bucket(now, MappingsTtl), value |-> NoneMapping]]
    ELSE IF up.fails
    THEN [ok |-> FALSE, value |-> NoneMapping, slot |-> slot]
    ELSE [ok |-> TRUE, value |-> [none |-> FALSE, names |-> up.names],
          slot |-> [bucket |-> Bucket(now, MappingsTtl),
                    value |-> [none |-> FALSE, names |-> up.names]]]

\* resolve_mapped_name(device) on the mapping get_mappings() returned
ResolveMappedName(device, mapping) ==
    IF mapping.none
    THEN [ok |-> FALSE, name |-> ""]
    ELSE IF HasKey(mapping.names, device.address) /\ ~device.default_device
    THEN [ok |-> TRUE, name |-> Lookup(mapping.names, device.address)]
    ELSE IF HasKey(mapping.names, device.parent)
    THEN [ok |-> TRUE, name |-> Lookup(mapping.names, device.parent)]
    ELSE [ok |-> TRUE, name |-> device.address]

LegLabels(device, name) ==
    <<Host, device.address, device.type, device.parent_type, name>>

LastParam(device, p, value, obs, err) ==
    [device |-> device, p |-> p, value |-> value, obs |-> obs, err |-> err]
NoLast == LastParam(NoDevice, Param("none", "none", <<>>), AbsentValue, <<>>, "none")

\* the state a pass threads through its calls: the shared dict and cache,
\* and what the pass has added, which calls failed and what was raised
Raise(st, device, p, value, err) ==
    [st EXCEPT !.err = err, !.last = LastParam(device, p, value, <<>>, err)]
Emit(st, device, p, value, g, obs) ==
    [st EXCEPT !.metrics = AddMetric(@, g, obs),
               !.own = @ \o obs,
               !.last = LastParam(device, p, value, obs, "none")]

\* the mapped name, or the exception, of one process_* call
Mapped(st, device, up) ==
    LET gm == GetMappings(st.map, up)
        rn == ResolveMappedName(device, gm.value)
    IN  [slot |-> gm.slot,
         err |-> IF ~gm.ok THEN "UpstreamFailure"
                 ELSE IF ~rn.ok THEN "AttributeError" ELSE "none",
         name |-> rn.name]

NamesFailed(st, device, err) ==
    IF err = "UpstreamFailure"
    THEN [st EXCEPT !.fails = @ \cup {FailedCall("device_names", "Error", device)}]
    ELSE st

IsNumber(value) == value.t \in {"num", "bool"}

ProcessSingleValue(st, device, p, value, up) ==
    IF value.t \in {"empty", "absent"}
    THEN [st EXCEPT !.last = LastParam(device, p, value, <<>>, "none")]
    ELSE LET g == Lower(p.key)
             mp == Mapped(st, device, up)
             st1 == [st EXCEPT !.metrics = EnsureFamily(@, g), !.map = mp.slot]
         IN  IF mp.err # "none"
             THEN Raise(NamesFailed(st1, device, mp.err), device, p, value, mp.err)
             ELSE IF ~IsNumber(value)
             THEN Raise(st1, device, p, value, "ValueError")
             ELSE Emit(st1, device, p, value, g,
                       <<Sample(g, LegLabels(device, mp.name), value.v)>>)

\* istates[int(value)]: the position in the list, 0 if there is none
PyIndex(istates, n) ==
    IF 0 <= n /\ n < Len(istates) THEN n + 1
    ELSE IF n < 0 /\ 0 - n <= Len(istates) THEN Len(istates) + n + 1
    ELSE 0

\* for istate in istates: add_metric((.., istate), int(state == istate))
ProcessEnumSamples(device, name, g, istates, at) ==
    [i \in 1..Len(istates) |->
        Sample(g, LegLabels(device, name) \o <<istates[i]>>,
               IF istates[at] = istates[i] THEN 1 ELSE 0)]

ProcessEnum(st, device, p, value, up) ==
    IF value.t \in {"empty", "absent"}
    THEN [st EXCEPT !.last = LastParam(device, p, value, <<>>, "none")]
    ELSE LET g == LowerSet(p.key)
             mp == Mapped(st, device, up)
             st1 == [st EXCEPT !.metrics = EnsureFamily(@, g), !.map = mp.slot]
             at == PyIndex(p.VALUE_LIST, value.v)
         IN  IF mp.err # "none"
             THEN Raise(NamesFailed(st1, device, mp.err), device, p, value, mp.err)
             ELSE IF ~IsNumber(value)
             THEN Raise(st1, device, p, value, "ValueError")
             ELSE IF at = 0
             THEN Raise(st1, device, p, value, "IndexError")
             ELSE Emit(st1, device, p, value, g,
                       ProcessEnumSamples(device, mp.name, g, p.VALUE_LIST, at))

EmptyParamset == [k \in ParamKeys |-> AbsentValue]

\* what the controller does on the calls of one device: the paramset read
\* returns values or raises a Fault or another error, the description read
\* returns a description or raises, device_names() returns names or raises;
\* values vary for the keys of the description, names when get_mappings()
\* would call device_names()
ParamsetOutcomes(desc) ==
    {[exc |-> "none", values |-> v] :
        v \in {w \in [ParamKeys -> LegValues] :
                  \A k \in ParamKeys :
                      (\A i \in 1..Len(desc) : desc[i].key # k) => w[k] = AbsentValue}}
        \cup {[exc |-> e, values |-> EmptyParamset] : e \in {"Fault", "Error"}}
DescriptionOutcomes ==
    {[fails |-> FALSE, desc |-> d] : d \in Descriptions}
        \cup {[fails |-> TRUE, desc |-> <<>>]}
NameOutcomes ==
    IF lconfig \/ lmap.bucket = Bucket(now, MappingsTtl)
    THEN {[fails |-> FALSE, names |-> {}]}
    ELSE {[fails |-> FALSE, names |-> n] : n \in NameInputs}
             \cup {[fails |-> TRUE, names |-> {}]}

\* a variant of AllowFailedChannel that lets every channel fail
AllowFailedChannelAlways(device) == TRUE

AllowFailedChannel(device) ==
    device.channel \in ChannelsWithErrorsAllowed(device.parent_type)

\* paramset = {}; try: paramset = self.client.paramset(..)
\* except xmlrpc.client.Fault: if not allowFailedChannel: raise
ReadParamset(device, ps) ==
    IF ps.exc = "none" THEN [ok |-> TRUE, paramset |-> ps.values]
    ELSE IF ps.exc = "Fault" /\ AllowFailedChannel(device)
    THEN [ok |-> TRUE, paramset |-> EmptyParamset]
    ELSE [ok |-> FALSE, paramset |-> EmptyParamset]

\* for key in paramsetDescription: .., until a call raises
RECURSIVE ProcessParams(_, _, _, _, _)
ProcessParams(st, device, desc, paramset, up) ==
    IF desc = <<>> \/ st.err # "none" THEN st
    ELSE LET p == Head(desc)
             value == IF p.key \in DOMAIN paramset THEN paramset[p.key]
                      ELSE AbsentValue
             st1 == IF p.TYPE \in {"FLOAT", "INTEGER", "BOOL"}
                    THEN ProcessSingleValue(st, device, p, value, up)
                    ELSE IF p.TYPE = "ENUM"
                    THEN ProcessEnum(st, device, p, value, up)
                    ELSE st
         IN  ProcessParams(st1, device, Tail(desc), paramset, up)

\* the body of the loop over devices for one device
ProcessDevice(st, device, ps, pd, up) ==
    IF ~(device.parent_type \in SupportedDeviceTypes /\ device.values) THEN st
    ELSE LET rd == ReadParamset(device, ps)
             st1 == IF ps.exc = "none" THEN st
                    ELSE [st EXCEPT !.fails =
                             @ \cup {FailedCall("paramset", ps.exc, device)}]
         IN  IF ~rd.ok THEN [st1 EXCEPT !.err = "UpstreamFailure"]
             ELSE IF pd.fails
             THEN [st1 EXCEPT !.err = "UpstreamFailure",
                              !.fails = @ \cup {FailedCall("paramset_description",
                                                           "Error", device)}]
             ELSE ProcessParams(st1, device, pd.desc, rd.paramset, up)

LegReset ==
    /\ lmetrics = NoLegMetrics
    /\ lmap = NoMapSlot
    /\ lpc = [t \in Threads |-> "idle"]
    /\ ldevs = [t \in Threads |-> <<>>]
    /\ li = [t \in Threads |-> 1]
    /\ lresult = [t \in Threads |-> NoLegMetrics]
    /\ lerr = [t \in Threads |-> "none"]
    /\ lown = [t \in Threads |-> <<>>]
    /\ lfails = [t \in Threads |-> {}]
    /\ lstarts = 0
    /\ llast = NoLast

LegIdle ==
    /\ lconfig = FALSE
    /\ mapped_names = {}
    /\ LegReset

\* collect() up to the loop of generate_metrics(): devices = self.client.devices
\* and the devicecount family
LegStart(t, devs, fails) ==
    /\ lpc[t] \in {"idle", "done", "failed"}
    /\ lstarts < MaxPasses
    /\ lstarts' = lstarts + 1
    /\ lresult' = [lresult EXCEPT ![t] = NoLegMetrics]
    /\ li' = [li EXCEPT ![t] = 1]
    /\ llast' = NoLast
    /\ IF fails
       THEN /\ lpc' = [lpc EXCEPT ![t] = "failed"]
            /\ lerr' = [lerr EXCEPT ![t] = "UpstreamFailure"]
            /\ lfails' = [lfails EXCEPT ![t] = {FailedCall("devices", "Error", NoDevice)}]
            /\ lown' = [lown EXCEPT ![t] = <<>>]
            /\ ldevs' = [ldevs EXCEPT ![t] = <<>>]
            /\ UNCHANGED lmetrics
       ELSE LET count == <<Sample("devicecount", <<Host>>, Len(devs))>>
            IN  /\ lpc' = [lpc EXCEPT ![t] = "run"]
                /\ lerr' = [lerr EXCEPT ![t] = "none"]
                /\ lfails' = [lfails EXCEPT ![t] = {}]
                /\ lown' = [lown EXCEPT ![t] = count]
                /\ ldevs' = [ldevs EXCEPT ![t] = devs]
                /\ lmetrics' = [lmetrics EXCEPT !["devicecount"] =
                                   [present |-> TRUE, samples |-> count]]
    /\ UNCHANGED <<now, cacheVars, dirVars, xmlVars, startVars, lconfig, mapped_names, lmap>>

\* one turn of the loop over devices
LegDevice(t, ps, pd, up) ==
    /\ lpc[t] = "run"
    /\ li[t] <= Len(ldevs[t])
    /\ LET st == ProcessDevice([metrics |-> lmetrics, map |-> lmap, own |-> lown[t],
                                fails |-> lfails[t], err |-> "none", last |-> llast],
                               ldevs[t][li[t]], ps, pd, up)
       IN  /\ lmetrics' = st.metrics
           /\ lmap' = st.map
           /\ lown' = [lown EXCEPT ![t] = st.own]
           /\ lfails' = [lfails EXCEPT ![t] = st.fails]
           /\ lerr' = [lerr EXCEPT ![t] = st.err]
           /\ llast' = st.last
           /\ IF st.err = "none"
              THEN /\ li' = [li EXCEPT ![t] = @ + 1]
                   /\ UNCHANGED lpc
              ELSE /\ lpc' = [lpc EXCEPT ![t] = "failed"]
                   /\ UNCHANGED li
    /\ UNCHANGED <<now, cacheVars, dirVars, xmlVars, startVars, lconfig, mapped_names, ldevs, lresult, lstarts>>

\* the rest of collect(): the families are yielded and self.metrics = {}
LegFinish(t) ==
    /\ lpc[t] = "run"
    /\ li[t] > Len(ldevs[t])
    /\ lresult' = [lresult EXCEPT ![t] = lmetrics]
    /\ lmetrics' = NoLegMetrics
    /\ lpc' = [lpc EXCEPT ![t] = "done"]
    /\ UNCHANGED <<now, cacheVars, dirVars, xmlVars, startVars, lconfig, mapped_names, lmap, ldevs, li, lerr,
                   lown, lfails, lstarts, llast>>

(***************************************************************************)
(* exporter.py: main()                                                     *)
(***************************************************************************)
None == "None"
Truthy(x) == x # None /\ x # ""

\* the arguments main() looks at; an option that is not given is None, a
\* store_true flag is FALSE
ArgsInputs ==
    [ccu_user : {None, "user"}, ccu_pass : {None, "pass"},
     ccu_session_id : {None, "session"}, config_file : {None, "config.json"},
     dump_devices : BOOLEAN, dump_parameters : {None, "A:1"},
     dump_device_names : BOOLEAN]

NoArgs ==
    [ccu_user |-> None, ccu_pass |-> None, ccu_session_id |-> None,
     config_file |-> None, dump_devices |-> FALSE, dump_parameters |-> None,
     dump_device_names |-> FALSE]

StartIdle ==
    /\ spc = "idle"
    /\ sargs = NoArgs
    /\ soptimized = FALSE
    /\ sauth = <<>>
    /\ sregistered = <<>>
    /\ serr = "none"

\* auth = (user, pass) if both, else (None, session_id) if it, else (None, None)
AuthOf(args) ==
    IF Truthy(args.ccu_user) /\ Truthy(args.ccu_pass)
    THEN <<args.ccu_user, args.ccu_pass>>
    ELSE IF Truthy(args.ccu_session_id) THEN <<None, args.ccu_session_id>>
    ELSE <<None, None>>

\* dump_devices or dump_parameters or dump_device_names and not ccu_session_id
DumpRequested(args) ==
    \/ args.dump_devices
    \/ Truthy(args.dump_parameters)
    \/ (args.dump_device_names /\ ~Truthy(args.ccu_session_id))

\* assert len(auth) > 2 in HomeMaticCollector.__init__; -O strips it
AssertionHolds(auth) == soptimized \/ Len(auth) > 2

StartAuth ==
    /\ spc = "parsed"
    /\ sauth' = AuthOf(sargs)
    /\ spc' = "auth"
    /\ UNCHANGED <<now, cacheVars, dirVars, xmlVars, legVars, sargs, soptimized,
                   sregistered, serr>>

\* the dump branch: the exporter is not started
StartDump ==
    /\ spc = "auth"
    /\ DumpRequested(sargs)
    /\ spc' = "dumped"
    /\ UNCHANGED <<now, cacheVars, dirVars, xmlVars, legVars, sargs, soptimized,
                   sauth, sregistered, serr>>

\* REGISTRY.register(HomeMaticLegacyCollector(.., auth=auth, config_filename=..))
StartRegisterLegacy ==
    /\ spc = "auth"
    /\ ~DumpRequested(sargs)
    /\ ~Truthy(sargs.ccu_session_id)
    /\ sregistered' = Append(sregistered, "HomeMaticLegacyCollector")
    /\ spc' = "registered"
    /\ UNCHANGED <<now, cacheVars, dirVars, xmlVars, legVars, sargs, soptimized,
                   sauth, serr>>

\* REGISTRY.register(HomeMaticCollector(args.ccu_host, auth=auth, verify=False))
StartRegisterXml ==
    /\ spc = "auth"
    /\ ~DumpRequested(sargs)
    /\ Truthy(sargs.ccu_session_id)
    /\ IF AssertionHolds(sauth)
       THEN /\ sregistered' = Append(sregistered, "HomeMaticCollector")
            /\ spc' = "registered"
            /\ UNCHANGED serr
       ELSE /\ spc' = "crashed"
            /\ serr' = "AssertionError"
            /\ UNCHANGED sregistered
    /\ UNCHANGED <<now, cacheVars, dirVars, xmlVars, legVars, sargs, soptimized, sauth>>

\* start_http_server(int(args.port), registry=REGISTRY)
StartServer ==
    /\ spc = "registered"
    /\ spc' = "serving"
    /\ UNCHANGED <<now, cacheVars, dirVars, xmlVars, legVars, sargs, soptimized,
                   sauth, sregistered, serr>>

InitCache ==
    /\ now = 0
    /\ impl \in {"ttl_lru_cache", "lru_cache_with_ttl"}
    /\ ttl \in 1..MaxTtl
    /\ maxsize \in 1..MaxMaxsize
    /\ lru = <<>>
    /\ source = [k \in Keys |-> 0]
    /\ computedAt = [k \in Keys |-> NoTime]
    /\ storedVal = [k \in Keys |-> 0]
    /\ last = NoCall
    /\ DirIdle
    /\ XmlIdle
    /\ LegIdle
    /\ StartIdle

NextCache ==
    \/ \E k \in Keys, fails \in BOOLEAN : TtlLruCall(k, fails)
    \/ \E k \in Keys, fails \in BOOLEAN : WithTtlCall(k, fails)
    \/ SourceChange
    \/ CacheTick

SpecCache == InitCache /\ [][NextCache]_vars

InitDirectory ==
    /\ focus \in Kinds
    /\ now = DirTtl(focus) - Window
    /\ upDir \in [Kinds -> DirInputs]
    /\ \A k \in Kinds : k # focus => upDir[k] = <<>>
    /\ dirCache = [k \in Kinds |-> NoSlot]
    /\ resCache = [k \in Kinds |-> [x \in Channels |-> NoResSlot]]
    /\ lastRes = NoRes
    /\ CacheIdle
    /\ XmlIdle
    /\ LegIdle
    /\ StartIdle

NextDirectory ==
    \/ \E x \in Channels, fails \in BOOLEAN : ResolveCall(x, fails)
    \/ DirectoryChange
    \/ DirTick

SpecDirectory == InitDirectory /\ [][NextDirectory]_vars

InitXml ==
    /\ now = 0
    /\ focus = "none"
    /\ \E d \in DirInputs : upDir = [k \in Kinds |-> d]
    /\ dirCache = [k \in Kinds |-> NoSlot]
    /\ resCache = [k \in Kinds |-> [x \in Channels |-> NoResSlot]]
    /\ lastRes = NoRes
    /\ CacheIdle
    /\ XmlIdle
    /\ LegIdle
    /\ StartIdle

NextXml ==
    \/ \E snap \in PassSnapshots, fails \in BOOLEAN : XmlStart(snap, fails)
    \/ \E fails \in [Kinds -> BOOLEAN] : XmlChannel(fails)
    \/ XmlDatapoint
    \/ XmlFinish

SpecXml == InitXml /\ [][NextXml]_vars

\* passes over a state list of one datapoint, of every type, unit and value
InitClassify ==
    /\ now = 0
    /\ focus = "none"
    /\ upDir = [k \in Kinds |-> <<EntryA(<<1>>)>>]
    /\ dirCache = [k \in Kinds |-> NoSlot]
    /\ resCache = [k \in Kinds |-> [x \in Channels |-> NoResSlot]]
    /\ lastRes = NoRes
    /\ CacheIdle
    /\ XmlIdle
    /\ LegIdle
    /\ StartIdle

NextClassify ==
    \/ \E snap \in SingleSnapshots, fails \in BOOLEAN : XmlStart(snap, fails)
    \/ \E fails \in [Kinds -> BOOLEAN] : XmlChannel(fails)
    \/ XmlDatapoint
    \/ XmlFinish

SpecClassify == InitClassify /\ [][NextClassify]_vars

\* passes of one legacy collector, constructed with or without a config file,
\* served by two threads
InitLegacy ==
    /\ now = 0
    /\ lconfig \in BOOLEAN
    /\ mapped_names \in (IF lconfig THEN NameInputs ELSE {{}})
    /\ StartIdle
    /\ LegReset
    /\ CacheIdle
    /\ DirIdle
    /\ XmlIdle

NextLegacy ==
    \/ \E t \in Threads, devs \in DeviceLists, fails \in BOOLEAN : LegStart(t, devs, fails)
    \/ \E t \in Threads, pd \in DescriptionOutcomes, up \in NameOutcomes :
          \E ps \in ParamsetOutcomes(pd.desc) : LegDevice(t, ps, pd, up)
    \/ \E t \in Threads : LegFinish(t)

SpecLegacy == InitLegacy /\ [][NextLegacy]_vars

\* the same passes, one after the other on one thread
NextLegacySerial ==
    \/ \E devs \in DeviceLists, fails \in BOOLEAN : LegStart(1, devs, fails)
    \/ \E pd \in DescriptionOutcomes, up \in NameOutcomes :
          \E ps \in ParamsetOutcomes(pd.desc) : LegDevice(1, ps, pd, up)
    \/ LegFinish(1)

SpecLegacySerial == InitLegacy /\ [][NextLegacySerial]_vars

\* main() from the parsed command line on, for every command line
InitStartup ==
    /\ now = 0
    /\ spc = "parsed"
    /\ sargs \in ArgsInputs
    /\ soptimized \in BOOLEAN
    /\ sauth = <<>>
    /\ sregistered = <<>>
    /\ serr = "none"
    /\ CacheIdle
    /\ DirIdle
    /\ XmlIdle
    /\ LegIdle

NextStartup ==
    \/ StartAuth
    \/ StartDump
    \/ StartRegisterLegacy
    \/ StartRegisterXml
    \/ StartServer

SpecStartup == InitStartup /\ [][NextStartup]_vars

(***************************************************************************)
(* Claims about the caches (checked under SpecCache).                      *)
(***************************************************************************)
\* C1 as stated: once the computation has run for a key at time t (and its entry
\* has not been displaced by the lru bound), every call at t <= t' < t + ttl
\* returns the stored value without invoking the computation, and a call at
\* t' >= t + ttl invokes it exactly once.
C1_TtlFromComputation ==
    (last.op = "call" /\ last.prevT # NoTime /\ last.stored) =>
        /\ (last.time < last.prevT + ttl) =>
               (last.invoked = 0 /\ last.outcome = "ok" /\ last.value = last.prevV)
        /\ (last.time >= last.prevT + ttl) => last.invoked = 1

\* C1 amended: ttl_lru_cache expires by aligned windows floor(time / ttl): a call
\* in the window of the last computation returns the stored value without
\* invoking the computation (entry not displaced), a call in any later window,
\* so every call at t' >= t + ttl, invokes it exactly once. lru_cache_with_ttl
\* returns the stored value up to and including t + ttl and invokes the
\* computation exactly once at t' > t + ttl.
C1_WindowedExpiry ==
    (last.op = "call" /\ last.prevT # NoTime) =>
        /\ impl = "ttl_lru_cache" =>
              /\ (last.stored /\ Bucket(last.time, ttl) = Bucket(last.prevT, ttl)) =>
                     (last.invoked = 0 /\ last.outcome = "ok" /\ last.value = last.prevV)
              /\ (Bucket(last.time, ttl) # Bucket(last.prevT, ttl)) => last.invoked = 1
              /\ (last.time >= last.prevT + ttl) => last.invoked = 1
        /\ impl = "lru_cache_with_ttl" =>
              /\ (last.stored /\ last.time <= last.prevT + ttl) =>
                     (last.invoked = 0 /\ last.outcome = "ok" /\ last.value = last.prevV)
              /\ (last.time > last.prevT + ttl) => last.invoked = 1
              /\ ~last.stored => last.invoked = 1

\* C1 witness: ttl_lru_cache recomputes in a new window although less than ttl
\* seconds have passed since the computation, and returns the fresh value
C1_Witness ==
    /\ impl = "ttl_lru_cache"
    /\ last.op = "call" /\ last.prevT # NoTime /\ last.stored
    /\ last.time < last.prevT + ttl
    /\ last.invoked = 1 /\ last.outcome = "ok" /\ last.value # last.prevV

\* whether a call for k made now would invoke the computation
WouldInvoke(k) ==
    IF impl = "ttl_lru_cache"
    THEN LruFind(lru, TtlKey(k)) = 0
    ELSE LET i == LruFind(lru, <<k>>) IN i = 0 \/ lru[i].death < now

Entries(c) == {c[i] : i \in 1..Len(c)}

\* C4: a call whose computation raised raises itself, leaves every stored value
\* and expiry as it was (nothing is stored for the failure, no expiry moves), and
\* the next call for that key invokes the computation again.
C4_FailureNotCached ==
    /\ [](last.outcome = "raised" => (last.invoked = 1 /\ WouldInvoke(last.key)))
    /\ [][(last' # last /\ last'.outcome = "raised") =>
            (Entries(lru') = Entries(lru) /\ computedAt' = computedAt
             /\ storedVal' = storedVal)]_vars

\* C4 witness: a refresh of an expired, still stored entry raised while the
\* controller's value had changed
C4_Witness ==
    /\ last.outcome = "raised" /\ last.prevT # NoTime /\ last.stored
    /\ source[last.key] # last.prevV
    /\ lru # <<>>

(***************************************************************************)
(* Claims about the directories (checked under SpecDirectory).             *)
(***************************************************************************)
\* the list the accessor returns when called now
AccessorView(kind) ==
    IF dirCache[kind].bucket = Bucket(now, DirTtl(kind))
    THEN dirCache[kind].snap
    ELSE upDir[kind]

\* the label of the resolve call that just returned is the one the accessor's
\* list gives now, and it was computed from the latest refresh of the list
ResolvedFresh ==
    /\ lastRes.label = Join(lastRes.kind, AccessorView(lastRes.kind), lastRes.ch)
    /\ lastRes.gen = dirCache[lastRes.kind].gen

\* the join's window began before the accessor's window did
Straddles(kind) == WindowStart(now, ResTtl(kind)) < WindowStart(now, DirTtl(kind))

\* C2 as stated: every resolve call returns the label derived from the list the
\* accessor returns at that time, never one computed from an earlier refresh
\* generation of the list.
C2_AlwaysCurrentSnapshot ==
    (lastRes.op = "resolve" /\ lastRes.ok) => ResolvedFresh

\* C2 amended: it holds for rooms (3600 = 60 * 60) and devices (3200 = 32 * 100);
\* for functions the label may come from the generation before the latest one,
\* served from the join's own cache, while the join's 94 s window is one that
\* began before the current 3100 s window of the functions list began.
C2_CurrentUnlessWindowStraddles ==
    (lastRes.op = "resolve" /\ lastRes.ok) =>
        /\ lastRes.kind \in {"room", "device"} => ResolvedFresh
        /\ \/ ResolvedFresh
           \/ /\ lastRes.kind = "function"
              /\ Straddles(lastRes.kind)
              /\ lastRes.hit
              /\ lastRes.gen >= dirCache[lastRes.kind].gen - 1

\* C2 witness: after the rooms list has been refreshed a second time and the
\* controller's list has changed, a join is served from its cache
C2_Witness ==
    /\ lastRes.op = "resolve" /\ lastRes.ok /\ lastRes.hit
    /\ lastRes.kind = "room" /\ lastRes.gen = 2
    /\ now >= RoomsTtl
    /\ lastRes.label # "unknown"

\* the entries of dir that have x among their member channels
Matching(dir, x) ==
    {i \in 1..Len(dir) : \E j \in 1..Len(dir[i].channel) : dir[i].channel[j] = x}

\* C5: a join computed over a list returns the label of the one entry that has
\* the channel as a member (name, or address and type for devices), and
\* "unknown" when no entry or several entries have it.
C5_JoinCorrect ==
    (lastRes.op = "resolve" /\ lastRes.ok /\ ~lastRes.hit) =>
        LET m == Matching(lastRes.snap, lastRes.ch)
        IN  IF Cardinality(m) = 1
            THEN \A i \in m :
                   lastRes.label = IF lastRes.kind = "device"
                                   THEN <<lastRes.snap[i].address, lastRes.snap[i].device_type>>
                                   ELSE lastRes.snap[i].name
            ELSE lastRes.label = IF lastRes.kind = "device"
                                 THEN <<"unknown", "unknown">>
                                 ELSE "unknown"

\* C5 witness: a device join over a list in which two entries have the channel
C5_Witness ==
    /\ lastRes.op = "resolve" /\ lastRes.ok /\ ~lastRes.hit
    /\ lastRes.kind = "device"
    /\ Cardinality(Matching(lastRes.snap, lastRes.ch)) = 2
    /\ lastRes.label = <<"unknown", "unknown">>

(***************************************************************************)
(* Claims about the XML-API pass (checked under SpecClassify and SpecXml). *)
(***************************************************************************)
Row(type, unit, family, mul, div, extra) ==
    [type |-> type, unit |-> unit, family |-> family, mul |-> mul, div |-> div,
     extra |-> extra]

\* the declared dispatch table; unit "*" stands for every unit the type has no
\* row of its own for
DeclaredTable ==
    {Row("RSSI_DEVICE", "*", "rssi", 1, 1, <<"ccu->device">>),
     Row("RSSI_PEER", "*", "rssi", 1, 1, <<"device->ccu">>),
     Row("ACTUAL_TEMPERATURE", "*", "temperature", 1, 1, <<>>),
     Row("TEMPERATURE", "*", "temperature", 1, 1, <<>>),
     Row("HUMIDITY", "DECIMAL_PERCENT", "humidity", 1, 100, <<>>),
     Row("HUMIDITY", "*", "humidity", 1, 1, <<>>),
     Row("LEVEL", "PERCENT", "level", 1, 1, <<>>),
     Row("OPERATING_VOLTAGE", "UNKNOWN", "battery", 1, 1, <<>>),
     Row("ENERGY_COUNTER", "WATT_HOUR", "energy", 3600, 1, <<>>),
     Row("ENERGY_COUNTER", "WATT", "energy", 1, 1, <<>>),
     Row("CURRENT", "MILLI_AMPERE", "current", 1, 1000, <<>>),
     Row("CURRENT", "*", "current", 1, 1, <<>>),
     Row("VOLTAGE", "VOLTAGE", "voltage", 1, 1, <<>>),
     Row("POWER", "WATT", "power", 1, 1, <<>>)}

\* the table the code implements: an energy counter of any other unit is emitted
\* unconverted
ImplementedTable ==
    DeclaredTable \cup {Row("ENERGY_COUNTER", "*", "energy", 1, 1, <<>>)}

RowsFor(table, dp) ==
    LET own == {r \in table : r.type = dp.type /\ r.unit = dp.valueunit}
    IN  IF own # {} THEN own
        ELSE {r \in table : r.type = dp.type /\ r.unit = "*"}

\* the datapoint just classified added what the table says: nothing without a
\* row, else one sample of the row's family with the row's conversion applied
\* and the row's extra label after the base labels
FollowsTable(table) ==
    xlast.op = "datapoint" =>
        LET rows == RowsFor(table, xlast.dp)
        IN  IF rows = {}
            THEN xlast.obs = <<>>
            ELSE /\ Len(xlast.obs) = 1
                 /\ \A r \in rows :
                       /\ xlast.obs[1].family = r.family
                       /\ SameFloat(xlast.obs[1].value,
                                    Over(Times(floatify(xlast.dp.value), r.mul), r.div))
                       /\ xlast.obs[1].labels = xlabels \o r.extra

\* C6 as stated: every (type, unit) pair of the declared table yields exactly one
\* observation of the declared kind with the declared conversion; every other
\* pair, an energy counter of another unit than WATT_HOUR or WATT among them,
\* yields none.
C6_DeclaredTable == FollowsTable(DeclaredTable)

\* C6 amended: as stated, except that ENERGY_COUNTER with a unit other than
\* WATT_HOUR or WATT yields one energy observation with the identity conversion.
C6_ImplementedTable == FollowsTable(ImplementedTable)

\* C6 witness: an energy counter in watt hours has been converted to joules
C6_Witness ==
    /\ xlast.op = "datapoint"
    /\ xlast.dp = Datapoint("ENERGY_COUNTER", "WATT_HOUR", Num(2))
    /\ Len(xlast.obs) = 1
    /\ xlast.obs[1].value = <<7200, 1>>

\* C7: the families a pass yields hold at most one observation per label tuple
C7_OnePerLabelTuple ==
    xpc = "done" =>
        \A f \in Families :
            \A i \in 1..Len(xresult[f]), j \in 1..Len(xresult[f]) :
                i # j => xresult[f][i].labels # xresult[f][j].labels

(***************************************************************************)
(* Claims about the legacy collector's passes                              *)
(***************************************************************************)
\* the samples of family g the pass of thread t has added itself
OwnOf(t, g) == SelectSeq(lown[t], LAMBDA o : o.family = g)

\* C3: the batch a completed pass returns holds exactly the samples that
\* pass added from its own device list: nothing another pass accumulated
\* is in it and nothing this pass added is missing from it.
C3_BatchIsOwnPass ==
    \A t \in Threads :
        lpc[t] = "done" =>
            \A g \in LegGauges : lresult[t][g].samples = OwnOf(t, g)

\* C8: a pass ends as failed only when a call to the controller failed; a
\* malformed value of a parameter never raises out of the pass.
C8_AbortsOnlyOnUpstreamFailure ==
    \A t \in Threads : lpc[t] = "failed" => lerr[t] = "UpstreamFailure"

\* a Fault of the paramset read on a channel listed for its parent type
ExpectedFault(f) ==
    /\ f.call = "paramset"
    /\ f.exc = "Fault"
    /\ f.device.channel \in ChannelsWithErrorsAllowed(f.device.parent_type)

\* C9 as stated: a pass in which a controller call failed has ended as
\* failed; it neither continues nor returns a batch.
C9_EveryFailurePropagates ==
    \A t \in Threads : lfails[t] # {} => lpc[t] = "failed"

\* C9 amended: a pass in which a controller call failed has ended as
\* failed, unless every failure was a Fault of the paramset read on a
\* channel listed in channels_with_errors_allowed for its parent type; such
\* a Fault is swallowed and the pass goes on with an empty paramset.
C9_FailurePropagatesUnlessExpectedFault ==
    \A t \in Threads :
        (\E f \in lfails[t] : ~ExpectedFault(f)) => lpc[t] = "failed"

\* a Fault of the paramset read on a channel that is not listed has ended
\* the pass
C9_Witness ==
    \E t \in Threads :
        /\ lpc[t] = "failed"
        /\ \E f \in lfails[t] :
              f.call = "paramset" /\ f.exc = "Fault" /\ ~ExpectedFault(f)

\* obs is the one-hot expansion of position at of the state list
OneHot(obs, states, at) ==
    /\ Len(obs) = Len(states)
    /\ \A i \in 1..Len(states) :
          /\ obs[i].labels[6] = states[i]
          /\ obs[i].value = (IF i = at THEN 1 ELSE 0)

\* C10: an ENUM parameter whose value is present and selects a state of its
\* VALUE_LIST adds one sample per state, labelled with that state, with 1 for
\* the selected state and 0 for every other one (unless the name lookup of
\* the controller failed).
C10_OneHotPerState ==
    (/\ llast.p.TYPE = "ENUM"
     /\ llast.value.t = "num"
     /\ llast.value.v \in 0..(Len(llast.p.VALUE_LIST) - 1)
     /\ llast.err # "UpstreamFailure")
        => OneHot(llast.obs, llast.p.VALUE_LIST, llast.value.v + 1)

(***************************************************************************)
(* Claims about both collectors                                            *)
(***************************************************************************)
\* a raw value that is the empty string or is absent
NoValue(value) == value.t \in {"empty", "absent"}

\* C11: a reading whose raw value is empty or absent adds no sample, in the
\* XML-API collector (the datapoint just classified) and in the legacy
\* collector (the parameter just processed).
C11_NoValueNoSample ==
    /\ (xlast.op = "datapoint" /\ NoValue(xlast.dp.value)) => xlast.obs = <<>>
    /\ (llast.p.TYPE \in {"FLOAT", "ENUM"} /\ NoValue(llast.value)) => llast.obs = <<>>

\* the device-count samples among the families a pass has yielded
DeviceCountOf(result) ==
    IF "devicecount" \in DOMAIN result THEN result["devicecount"] ELSE <<>>

\* the devices of an XML-API state list
XmlDevices(snap) == {snap[i].device : i \in 1..Len(snap)}

\* C12: a completed pass has yielded exactly one device-count sample, whose
\* value is the number of devices of the pass's snapshot, in the XML-API
\* collector and in the legacy collector.
C12_OneDeviceCount ==
    /\ xpc = "done" =>
          /\ Len(DeviceCountOf(xresult)) = 1
          /\ DeviceCountOf(xresult)[1].value = Float(Cardinality(XmlDevices(xsnap)))
    /\ \A t \in Threads :
          lpc[t] = "done" =>
              lresult[t]["devicecount"].samples =
                  <<Sample("devicecount", <<Host>>, Len(ldevs[t]))>>

(***************************************************************************)
(* Claims about the configured legacy collector                            *)
(***************************************************************************)
\* the name the config file's device_mapping gives a device: that of its
\* address, else that of its parent's address, else the address itself
ConfiguredName(device) ==
    IF HasKey(mapped_names, device.address) THEN Lookup(mapped_names, device.address)
    ELSE IF HasKey(mapped_names, device.parent) THEN Lookup(mapped_names, device.parent)
    ELSE device.address

\* C13: in a collector constructed with a config file that has a device
\* mapping, a pass ends as failed only when a controller call failed, and
\* every sample of the parameter just processed carries the configured name
\* of its device as its mapped_name label.
C13_ConfiguredNames ==
    (lconfig /\ mapped_names # {}) =>
        /\ \A t \in Threads : lpc[t] = "failed" => lerr[t] = "UpstreamFailure"
        /\ \A i \in 1..Len(llast.obs) :
              llast.obs[i].labels[5] = ConfiguredName(llast.device)

(***************************************************************************)
(* Claims about startup                                                    *)
(***************************************************************************)
\* C14: main() never ends with a failed assertion of the XML-API collector's
\* constructor; once it has registered, exactly one collector is
\* registered: the XML-API collector if a session id was given, the legacy
\* collector otherwise.
C14_OneCollectorRegistered ==
    /\ serr # "AssertionError"
    /\ spc \in {"registered", "serving"} =>
          sregistered = <<IF Truthy(sargs.ccu_session_id)
                          THEN "HomeMaticCollector"
                          ELSE "HomeMaticLegacyCollector">>
    /\ (spc = "auth" /\ Truthy(sargs.ccu_session_id)
           /\ ~(Truthy(sargs.ccu_user) /\ Truthy(sargs.ccu_pass)))
          => Len(sauth) = 2
====
